---- MODULE Spec2Model ----
(***************************************************************************)
(* Model of backend/main.py of the stock dashboard: the quote normaliser   *)
(* get_stock_data, the aggregation pass get_stocks, and the per-connection *)
(* push loop websocket_endpoint.                                           *)
(*                                                                         *)
(* Numbers.  Upstream prices are integers in thousandths (50.000 is        *)
(* 50000); a value rounded to 2 places is an integer in hundredths (50.00  *)
(* is 5000).  A value that may be missing is a tagged record: Num(n), the  *)
(* Python None (Null), a key that is not in the dict (Absent), or the      *)
(* non-finite results of a float division by zero (Inf, NaN).  The         *)
(* upstream numbers of the model are multiples of 0.125, which a binary    *)
(* float holds exactly, so that round(x, 2) is the exact round-half-even.  *)
(***************************************************************************)
EXTENDS Integers, Sequences, FiniteSets, TLC

\* ------------------------------------------------------------------ bounds
NumTickers == 3      \* how many of the configured tickers the model keeps
NumConns   == 2      \* websocket connections that may be accepted
MaxCycles  == 2      \* aggregation passes in one behaviour
MaxBars    == 3      \* bars in the history of one chart request

\* ------------------------------------------------------------------ values
Num(n) == [k |-> "num", v |-> n]
Null   == [k |-> "null", v |-> 0]
Absent == [k |-> "absent", v |-> 0]
Inf    == [k |-> "inf", v |-> 0]
NaN    == [k |-> "nan", v |-> 0]

\* dict.get(key, default): the default is used only when the key is absent;
\* a key that is present with the value None yields None.
Get(field, default) == IF field.k = "absent" THEN Num(default) ELSE field

\* n / d rounded to the nearest integer, ties to the even one (d > 0).
RoundDiv(n, d) ==
    LET q == n \div d
        r == n % d
    IN  IF 2 * r < d THEN q
        ELSE IF 2 * r > d THEN q + 1
        ELSE IF q % 2 = 0 THEN q ELSE q + 1

\* round(x, 2) of a price in thousandths, in hundredths.
Round2(m) == RoundDiv(m, 10)

TICKERS_ALL == <<"HII", "GD", "TXT", "LDOS", "KTOS", "MRCY", "CW", "HEI", "RCAT", "PLTR">>
TICKERS == SubSeq(TICKERS_ALL, 1, NumTickers)

\* ------------------------------------------------- upstream (yfinance) data
\* What one yf.Ticker(t) gives: status "ok" with the last history row (Close,
\* Volume) and the info dict, or an error: stock.info raises ("info_error")
\* or the history frame is empty and .iloc[-1] raises ("no_history").
Rec(st, cl, vol, pcl, cap, pe, eps) ==
    [status |-> st, Close |-> cl, Volume |-> vol, previousClose |-> pcl,
     marketCap |-> cap, trailingPE |-> pe, trailingEps |-> eps]

Failure(st) == Rec(st, 0, 0, Absent, Absent, Absent, Absent)

Closes     == {0, 50000, 101125}
PrevCloses == {Absent, Null, Num(0), Num(40000)}
Caps       == {Absent, Null, Num(7)}
PEs        == {Absent, Null, Num(12375)}
EPSs       == {Absent, Null, Num(3)}

AllOutcomes ==
    {Failure("info_error"), Failure("no_history")} \cup
    {Rec("ok", cl, 100, p, c, e, s) :
        cl \in Closes, p \in PrevCloses, c \in Caps, e \in PEs, s \in EPSs}

\* ------------------------------------------------------------ get_stock_data
\* round(x, 2) raises TypeError on None.
\* get_stock_data raises when the fetch fails or when a value that is
\* rounded (previousClose, trailingPE) or used in arithmetic is None.
Raises(o) ==
    \/ o.status # "ok"
    \/ Get(o.previousClose, 0).k = "null"
    \/ Get(o.trailingPE, 0).k = "null"

\* ((Close - previousClose) / info.get("previousClose", 1)) * 100, rounded to
\* 2 places.  history["Close"] is a numpy float, so a zero denominator does
\* not raise: the quotient is inf (nan for 0/0) and round() keeps it.
ChangePct(cl, pcl) ==
    LET sub == Get(pcl, 0).v
        den == Get(pcl, 1000).v
    IN  IF den = 0
        THEN (IF cl - sub = 0 THEN NaN ELSE Inf)
        ELSE Num(RoundDiv((cl - sub) * 10000, den))

get_stock_data(ticker, o) ==
    [symbol        |-> ticker,
     currentValue  |-> Num(Round2(o.Close)),
     previousClose |-> Num(Round2(Get(o.previousClose, 0).v)),
     change        |-> Num(Round2(o.Close - Get(o.previousClose, 0).v)),
     changePct     |-> ChangePct(o.Close, o.previousClose),
     volume        |-> Num(o.Volume),
     marketCap     |-> Get(o.marketCap, 0),
     peRatio       |-> Num(Round2(Get(o.trailingPE, 0).v)),
     eps           |-> Get(o.trailingEps, 0)]

\* -------------------------------------------------------------------- state
ConnNames == <<"c1", "c2", "c3", "c4">>
Conns     == {ConnNames[k] : k \in 1..NumConns}
N         == Len(TICKERS)

\* The outcomes the upstream produces during an aggregation pass of GET
\* /stocks: the two failed fetches, a full record, a record whose marketCap
\* is None, one whose trailingPE is None, one whose previousClose is 0, and
\* one whose info dict is empty.
OkRec       == Rec("ok", 50000, 100, Num(40000), Num(7), Num(12375), Num(3))
NullCapRec  == Rec("ok", 50000, 100, Num(40000), Null, Num(12375), Num(3))
NullPERec   == Rec("ok", 50000, 100, Num(40000), Num(7), Null, Num(3))
ZeroPrevRec == Rec("ok", 50000, 100, Num(0), Num(7), Num(12375), Num(3))
EmptyRec    == Rec("ok", 50000, 100, Absent, Absent, Absent, Absent)
PassOutcomes == {Failure("info_error"), Failure("no_history"), OkRec,
                 NullCapRec, NullPERec, ZeroPrevRec, EmptyRec}

\* The outcomes the upstream produces during the passes of the push loops:
\* a failed fetch or a full record.
LoopOutcomes == {Failure("info_error"), OkRec}

\* ------------------------------------------- upstream history of a chart
\* One row of stock.history(period): prices in thousandths and the volume,
\* a float in thousandths or the NaN of a day without data.
Row(o, h, l, c, v) == [Open |-> o, High |-> h, Low |-> l, Close |-> c,
                       Volume |-> v]

Rows == {Row(50000, 51125, 49875, 50125, Num(100000)),
         Row(50125, 50375, 50000, 50250, Num(2750)),
         Row(50250, 50250, 50250, 50250, NaN)}

\* The index of row j: a timestamp; the rows come in chronological order.
Stamp(j) == [y |-> 2024, m |-> 1, d |-> j, hh |-> 9]

\* The histories of at most n bars.
Histories(n, rows) ==
    UNION {{[j \in 1..len |-> [t |-> Stamp(j), row |-> f[j]]] :
               f \in [1..len -> rows]} : len \in 0..n}

\* What yf.Ticker(t).history(period) gives: it raises, or a frame of bars.
HistoryError   == [ok |-> FALSE, bars |-> <<>>]
ChartUpstream  == {HistoryError} \cup
                  {[ok |-> TRUE, bars |-> b] : b \in Histories(MaxBars, Rows)}

\* The chart upstream while the push loops run: an error, an empty frame, one
\* bar, or one bar that cannot be converted.
LoopCharts     == {HistoryError} \cup
                  {[ok |-> TRUE, bars |-> b] : b \in Histories(1, Rows)}

\* The symbols a chart is asked for: a configured one and one that is not.
ChartSymbols   == {TICKERS_ALL[1], "AAPL"}

NoChart == [ticker |-> "", st |-> "idle", src |-> HistoryError, j |-> 0,
            chart_data |-> <<>>, status |-> 0, body |-> <<>>]

VARIABLES
    pc,           \* pc[c]: where connection c's websocket_endpoint is
    peer,         \* peer[c]: "open" or "gone" (the client went away)
    inflight,     \* inflight[c]: messages given to send_text, not yet sent
    received,     \* received[c]: pass number and builder of the last message c's
                  \* client got, and how many messages it got
    cur,          \* who is executing get_stocks: "none", "http" or a connection
    i,            \* get_stocks: index of the next ticker of the for loop
    stocks_data,  \* get_stocks: the list built so far
    up,           \* the upstream outcomes of the pass, one per ticker visited
    built,        \* number of aggregation passes completed
    calls,        \* number of get_stock_data calls made
    http,         \* the last response of GET /stocks (status 0: none yet)
    call,         \* one isolated call of get_stock_data: input and result
    tickers,      \* the module-level list TICKERS (line 42)
    chart         \* get_stock_chart: its frame and its last response

vars == <<pc, peer, inflight, received, cur, i, stocks_data, up, built, calls,
          http, call, tickers, chart>>

wsVars    == <<pc, peer, inflight, received>>
frameVars == <<cur, i, stocks_data, up, built, calls>>

NoCall  == [ticker |-> "", o |-> Failure("info_error"), state |-> "none",
            quote |-> get_stock_data("", Failure("info_error"))]
NoHttp  == [status |-> 0, body |-> <<>>]
NoMsg   == [id |-> 0, by |-> "", n |-> 0]

\* The loop states of websocket_endpoint (lines 138-141).
LoopStates == {"fetch", "send", "sleep"}
Active(c)  == pc[c] \in LoopStates
ActiveSet  == {c \in Conns : Active(c)}

\* The server has started: no connection, no request, no pass under way.
InitServer ==
    /\ pc = [c \in Conns |-> "new"]
    /\ peer = [c \in Conns |-> "open"]
    /\ inflight = [c \in Conns |-> {}]
    /\ received = [c \in Conns |-> NoMsg]
    /\ cur = "none"
    /\ i = 0
    /\ stocks_data = <<>>
    /\ up = <<>>
    /\ built = 0
    /\ calls = 0
    /\ http = NoHttp
    /\ tickers = TICKERS
    /\ chart = NoChart

Init ==
    /\ InitServer
    /\ call = NoCall

\* ---------------------------------------------------------------- get_stocks
\* The event loop is single-threaded: a coroutine resumes only when no other
\* one is running between two awaits.
Free == cur = "none"

\* Line 98: stocks_data = [] and the for loop starts.  get_stocks has no
\* await inside, so the caller keeps the event loop until it returns.
Begin(owner) ==
    /\ Free
    /\ built < MaxCycles
    /\ cur' = owner
    /\ i' = 1
    /\ stocks_data' = <<>>
    /\ up' = <<>>
    /\ UNCHANGED <<built, calls>>

\* Collect with the list emptied when a ticker fails.
Collect_reset(data, ticker, o) ==
    IF Raises(o) THEN <<>> ELSE Append(data, get_stock_data(ticker, o))

\* Collect with the new quote put in front of the list.
Collect_prepend(data, ticker, o) ==
    IF Raises(o) THEN data ELSE <<get_stock_data(ticker, o)>> \o data

\* Collect with the quote of a failed ticker replaced by a stored good one.
Collect_stale(data, ticker, o) ==
    Append(data, get_stock_data(ticker, IF Raises(o) THEN OkRec ELSE o))

\* Lines 100-104: the quote is appended; an exception of get_stock_data is
\* logged and the ticker is skipped.
Collect(data, ticker, o) ==
    IF Raises(o) THEN data ELSE Append(data, get_stock_data(ticker, o))

\* Lines 99-104: one iteration of the for loop.
NextIndex(k, o) == k + 1

FetchStep(outcomes) ==
    /\ cur # "none"
    /\ i >= 1 /\ i <= Len(tickers)
    /\ \E o \in outcomes :
          /\ stocks_data' = Collect(stocks_data, tickers[i], o)
          /\ up' = Append(up, o)
          /\ i' = NextIndex(i, o)
    /\ calls' = calls + 1
    /\ UNCHANGED <<cur, built, http, call, chart, tickers>>
    /\ UNCHANGED wsVars

\* Line 105: return stocks_data (the frame is left).
Leave ==
    /\ cur' = "none"
    /\ i' = 0
    /\ stocks_data' = <<>>
    /\ up' = <<>>
    /\ built' = built + 1
    /\ UNCHANGED calls

\* GET /stocks.
HttpRequest ==
    /\ Begin("http")
    /\ http' = NoHttp
    /\ UNCHANGED <<call, chart, tickers>>
    /\ UNCHANGED wsVars

\* HttpReturn when a failed ticker is turned into an error of the request.
HttpReturn_strict ==
    /\ cur = "http"
    /\ i > Len(tickers)
    /\ http' = IF Len(stocks_data) < Len(tickers)
               THEN [status |-> 500, body |-> <<>>]
               ELSE [status |-> 200, body |-> stocks_data]
    /\ Leave
    /\ UNCHANGED <<call, chart, tickers>>
    /\ UNCHANGED wsVars

\* HttpReturn when an incomplete list is answered by an empty one.
HttpReturn_complete ==
    /\ cur = "http"
    /\ i > Len(tickers)
    /\ http' = [status |-> 200,
                body |-> IF Len(stocks_data) < Len(tickers) THEN <<>>
                                                           ELSE stocks_data]
    /\ Leave
    /\ UNCHANGED <<call, chart, tickers>>
    /\ UNCHANGED wsVars

\* Line 105, reached from GET /stocks: the list is the response.
HttpReturn ==
    /\ cur = "http"
    /\ i > Len(tickers)
    /\ http' = [status |-> 200, body |-> stocks_data]
    /\ Leave
    /\ UNCHANGED <<call, chart, tickers>>
    /\ UNCHANGED wsVars

\* -------------------------------------------------------- websocket_endpoint
\* Accept with the sleep at the top of the loop.
Accept_sleepfirst(c) ==
    /\ Free
    /\ pc[c] = "new"
    /\ pc' = [pc EXCEPT ![c] = "sleep"]
    /\ UNCHANGED <<peer, inflight, received, http, call, chart, tickers>>
    /\ UNCHANGED frameVars

\* Line 136, then line 139 of the first iteration: accept() returns and the
\* handler enters get_stocks.
Accept(c) ==
    /\ pc[c] = "new"
    /\ Begin(c)
    /\ pc' = [pc EXCEPT ![c] = "fetch"]
    /\ UNCHANGED <<peer, inflight, received, http, call, chart, tickers>>

\* WsReturn as a hub would do it: the snapshot goes to every connection that
\* is waiting for a send.
WsReturn_broadcast(c) ==
    /\ cur = c
    /\ i > Len(tickers)
    /\ inflight' = [d \in Conns |->
                      IF d = c \/ pc[d] = "send"
                      THEN inflight[d] \cup {[id |-> built + 1, by |-> c,
                                              data |-> stocks_data]}
                      ELSE inflight[d]]
    /\ pc' = [pc EXCEPT ![c] = "send"]
    /\ Leave
    /\ UNCHANGED <<peer, received, http, call, chart, tickers>>

\* WsReturn when get_stocks turns a failed ticker into an error of the whole
\* pass: the exception reaches line 142 and the handler closes.
WsReturn_strict(c) ==
    /\ cur = c
    /\ i > Len(tickers)
    /\ IF Len(stocks_data) < N
       THEN /\ pc' = [pc EXCEPT ![c] = "close"]
            /\ UNCHANGED inflight
       ELSE /\ pc' = [pc EXCEPT ![c] = "send"]
            /\ inflight' = [inflight EXCEPT
                              ![c] = @ \cup {[id |-> built + 1, by |-> c,
                                              data |-> stocks_data]}]
    /\ Leave
    /\ UNCHANGED <<peer, received, http, call, chart, tickers>>

\* WsReturn when the send is started but not awaited: the handler goes on to
\* sleep with the message still in flight.
WsReturn_nowait(c) ==
    /\ cur = c
    /\ i > Len(tickers)
    /\ inflight' = [inflight EXCEPT
                      ![c] = @ \cup {[id |-> built + 1, by |-> c,
                                      data |-> stocks_data]}]
    /\ pc' = [pc EXCEPT ![c] = "sleep"]
    /\ Leave
    /\ UNCHANGED <<peer, received, http, call, chart, tickers>>

\* Lines 139-140: get_stocks returns to the handler, which serialises the
\* list and awaits send_text.  The message carries the number of the pass
\* that built it and the connection whose loop built it.
WsReturn(c) ==
    /\ cur = c
    /\ i > Len(tickers)
    /\ inflight' = [inflight EXCEPT
                      ![c] = @ \cup {[id |-> built + 1, by |-> c,
                                      data |-> stocks_data]}]
    /\ pc' = [pc EXCEPT ![c] = "send"]
    /\ Leave
    /\ UNCHANGED <<peer, received, http, call, chart, tickers>>

\* SendOk without line 141: the next pass starts as soon as the send is over.
SendOk_nodelay(c) ==
    /\ pc[c] = "send"
    /\ peer[c] = "open"
    /\ \E m \in inflight[c] :
          /\ received' = [received EXCEPT
                            ![c] = [id |-> m.id, by |-> m.by, n |-> @.n + 1]]
          /\ inflight' = [inflight EXCEPT ![c] = @ \ {m}]
    /\ Begin(c)
    /\ pc' = [pc EXCEPT ![c] = "fetch"]
    /\ UNCHANGED <<peer, http, call, chart, tickers>>

\* Line 140 completes: the message is delivered; line 141: the handler
\* sleeps.  Completion depends on the client taking the data.
SendOk(c) ==
    /\ Free
    /\ pc[c] = "send"
    /\ peer[c] = "open"
    /\ \E m \in inflight[c] :
          /\ received' = [received EXCEPT
                            ![c] = [id |-> m.id, by |-> m.by, n |-> @.n + 1]]
          /\ inflight' = [inflight EXCEPT ![c] = @ \ {m}]
    /\ pc' = [pc EXCEPT ![c] = "sleep"]
    /\ UNCHANGED <<peer, http, call, chart, tickers>>
    /\ UNCHANGED frameVars

\* SendFail with one try around a loop over all connections: the failure of
\* one send ends every loop.
SendFail_all(c) ==
    /\ Free
    /\ pc[c] = "send"
    /\ peer[c] = "gone"
    /\ inflight' = [d \in Conns |-> {}]
    /\ pc' = [d \in Conns |-> IF pc[d] \in {"send", "sleep"} THEN "close"
                                                            ELSE pc[d]]
    /\ UNCHANGED <<peer, received, http, call, chart, tickers>>
    /\ UNCHANGED frameVars

\* Line 140 raises (the client is gone); lines 142-144: the exception is
\* logged and the handler awaits websocket.close().
SendFail(c) ==
    /\ Free
    /\ pc[c] = "send"
    /\ peer[c] = "gone"
    /\ inflight' = [inflight EXCEPT ![c] = {}]
    /\ pc' = [pc EXCEPT ![c] = "close"]
    /\ UNCHANGED <<peer, received, http, call, chart, tickers>>
    /\ UNCHANGED frameVars

\* CloseReturns with the try inside the while loop: after the close the loop
\* goes on.
CloseReturns_loop(c) ==
    /\ Free
    /\ pc[c] = "close"
    /\ pc' = [pc EXCEPT ![c] = "sleep"]
    /\ UNCHANGED <<peer, inflight, received, http, call, chart, tickers>>
    /\ UNCHANGED frameVars

\* Line 144: websocket.close() on a connection whose client is already gone.
\* The handler does not guard the call: either it returns and the handler
\* ends, or it raises and the exception leaves the handler.
CloseReturns(c) ==
    /\ Free
    /\ pc[c] = "close"
    /\ pc' = [pc EXCEPT ![c] = "closed"]
    /\ UNCHANGED <<peer, inflight, received, http, call, chart, tickers>>
    /\ UNCHANGED frameVars

CloseRaises(c) ==
    /\ Free
    /\ pc[c] = "close"
    /\ peer[c] = "gone"
    /\ pc' = [pc EXCEPT ![c] = "error"]
    /\ UNCHANGED <<peer, inflight, received, http, call, chart, tickers>>
    /\ UNCHANGED frameVars

\* Line 141 is over: the next iteration enters get_stocks.
Wake(c) ==
    /\ pc[c] = "sleep"
    /\ Begin(c)
    /\ pc' = [pc EXCEPT ![c] = "fetch"]
    /\ UNCHANGED <<peer, inflight, received, http, call, chart, tickers>>

\* The client goes away.  The handler never calls receive(), so it notices
\* only at its next send_text.
PeerClose(c) ==
    /\ Active(c)
    /\ peer[c] = "open"
    /\ peer' = [peer EXCEPT ![c] = "gone"]
    /\ UNCHANGED <<pc, inflight, received, http, call, chart, tickers>>
    /\ UNCHANGED frameVars

\* The handler's task is cancelled at an await (server shutdown):
\* CancelledError is not an Exception, so line 142 does not catch it.
Cancel(c) ==
    /\ Free
    /\ pc[c] \in {"send", "sleep", "close"}
    /\ pc' = [pc EXCEPT ![c] = "cancelled"]
    /\ inflight' = [inflight EXCEPT ![c] = {}]
    /\ UNCHANGED <<peer, received, http, call, chart, tickers>>
    /\ UNCHANGED frameVars

\* The completion of a send that the handler does not wait for.
SendOk_nowait(c) ==
    /\ Free
    /\ peer[c] = "open"
    /\ \E m \in inflight[c] :
          /\ received' = [received EXCEPT
                            ![c] = [id |-> m.id, by |-> m.by, n |-> @.n + 1]]
          /\ inflight' = [inflight EXCEPT ![c] = @ \ {m}]
    /\ UNCHANGED <<pc, peer, http, call, chart, tickers>>
    /\ UNCHANGED frameVars

\* websocket_endpoint with line 140 not awaited.
websocket_endpoint_nowait(c) ==
    \/ Accept(c)
    \/ WsReturn_nowait(c)
    \/ SendOk_nowait(c)
    \/ Wake(c)

\* Lines 134-144: the steps of one connection's handler.
websocket_endpoint(c) ==
    \/ Accept(c)
    \/ WsReturn(c)
    \/ SendOk(c)
    \/ SendFail(c)
    \/ CloseReturns(c)
    \/ CloseRaises(c)
    \/ Wake(c)

\* The push connections.  (The two GET endpoints run alone in SpecAgg and
\* SpecChart, and beside a push connection in SpecAll.)
Next ==
    \/ FetchStep(LoopOutcomes)
    \/ \E c \in Conns : websocket_endpoint(c)
    \/ \E c \in Conns : PeerClose(c)
    \/ \E c \in Conns : Cancel(c)

Spec == Init /\ [][Next]_vars

\* What the event loop guarantees: a coroutine that can run does run, a
\* sleep ends, a send to a client that is gone fails, close() comes back.
\* Nothing makes a client take the data of a send or go away, and nothing
\* makes a connection arrive.
Fairness ==
    /\ WF_vars(FetchStep(LoopOutcomes))
    /\ \A c \in Conns :
          /\ WF_vars(WsReturn(c))
          /\ WF_vars(Wake(c))
          /\ WF_vars(SendFail(c))
          /\ WF_vars(CloseReturns(c) \/ CloseRaises(c))

FairSpec == Spec /\ Fairness

\* ----------------------------------------------- GET /stocks, called alone
NextAgg ==
    \/ FetchStep(PassOutcomes)
    \/ HttpRequest
    \/ HttpReturn

SpecAgg == Init /\ [][NextAgg]_vars

\* ------------------------------------------- get_stock_data, called alone
InitQuote ==
    /\ InitServer
    /\ call \in {[ticker |-> TICKERS[k], o |-> o, state |-> "ready",
                  quote |-> NoCall.quote] :
                     k \in 1..N, o \in AllOutcomes}

CallReturns ==
    /\ call.state = "ready"
    /\ ~Raises(call.o)
    /\ call' = [call EXCEPT !.state = "returned",
                            !.quote = get_stock_data(call.ticker, call.o)]
    /\ UNCHANGED <<http, chart, tickers>>
    /\ UNCHANGED wsVars
    /\ UNCHANGED frameVars

CallRaises ==
    /\ call.state = "ready"
    /\ Raises(call.o)
    /\ call' = [call EXCEPT !.state = "raised"]
    /\ UNCHANGED <<http, chart, tickers>>
    /\ UNCHANGED wsVars
    /\ UNCHANGED frameVars

NextQuote == CallReturns \/ CallRaises

SpecQuote == InitQuote /\ [][NextQuote]_vars

\* ------------------------------------------------------------ get_stock_chart
\* int(x) of a float in thousandths: the fraction is cut off.
Trunc(m) == m \div 1000

\* int(row["Volume"]) raises ValueError on NaN.
BarRaises(b) == b.row.Volume.k # "num"

\* Lines 120-127: one record; strftime("%Y-%m-%d") keeps the date of the
\* timestamp and drops the time.
ConvertBar(b) ==
    [date   |-> <<b.t.y, b.t.m, b.t.d>>,
     open   |-> Round2(b.row.Open),
     high   |-> Round2(b.row.High),
     low    |-> Round2(b.row.Low),
     close  |-> Round2(b.row.Close),
     volume |-> Trunc(b.row.Volume.v)]

\* Lines 131-132: the exception becomes HTTPException(500); chart_data is
\* dropped with the frame.
ChartError ==
    /\ chart' = [chart EXCEPT !.st = "done", !.j = 0, !.chart_data = <<>>,
                              !.status = 500, !.body = <<>>]
    /\ cur' = "none"

\* ChartRequest when the symbol asked for is added to TICKERS.
ChartRequest_track(upstream) ==
    /\ Free
    /\ \E t \in ChartSymbols : \E src \in upstream :
          /\ chart' = [ticker |-> t, st |-> "run", src |-> src, j |-> 1,
                       chart_data |-> <<>>, status |-> 0, body |-> <<>>]
          /\ tickers' = IF \E k \in 1..Len(tickers) : tickers[k] = t
                        THEN tickers ELSE Append(tickers, t)
    /\ cur' = "chart"
    /\ UNCHANGED <<i, stocks_data, up, built, calls, http, call>>
    /\ UNCHANGED wsVars

\* Lines 111-118: the request arrives, the history is asked for and
\* chart_data = [].  get_stock_chart has no await: it keeps the event loop.
ChartRequest(upstream) ==
    /\ Free
    /\ \E t \in ChartSymbols : \E src \in upstream :
          chart' = [ticker |-> t, st |-> "run", src |-> src, j |-> 1,
                    chart_data |-> <<>>, status |-> 0, body |-> <<>>]
    /\ cur' = "chart"
    /\ UNCHANGED <<i, stocks_data, up, built, calls, http, call, tickers>>
    /\ UNCHANGED wsVars

\* Line 116 raises.
ChartFetchFails ==
    /\ cur = "chart"
    /\ ~chart.src.ok
    /\ ChartError
    /\ UNCHANGED <<i, stocks_data, up, built, calls, http, call, tickers>>
    /\ UNCHANGED wsVars

\* ChartBarFails with the bar that cannot be converted skipped.
ChartBarFails_skip ==
    /\ cur = "chart"
    /\ chart.src.ok
    /\ chart.j <= Len(chart.src.bars)
    /\ BarRaises(chart.src.bars[chart.j])
    /\ chart' = [chart EXCEPT !.j = @ + 1]
    /\ UNCHANGED <<cur, i, stocks_data, up, built, calls, http, call, tickers>>
    /\ UNCHANGED wsVars

\* Lines 119-127: the conversion of a bar raises.
ChartBarFails ==
    /\ cur = "chart"
    /\ chart.src.ok
    /\ chart.j <= Len(chart.src.bars)
    /\ BarRaises(chart.src.bars[chart.j])
    /\ ChartError
    /\ UNCHANGED <<i, stocks_data, up, built, calls, http, call, tickers>>
    /\ UNCHANGED wsVars

\* Lines 119-127: one iteration of the loop over the rows.
ChartStep ==
    /\ cur = "chart"
    /\ chart.src.ok
    /\ chart.j <= Len(chart.src.bars)
    /\ ~BarRaises(chart.src.bars[chart.j])
    /\ chart' = [chart EXCEPT
                   !.chart_data = Append(@, ConvertBar(chart.src.bars[chart.j])),
                   !.j = @ + 1]
    /\ UNCHANGED <<cur, i, stocks_data, up, built, calls, http, call, tickers>>
    /\ UNCHANGED wsVars

\* Line 129: return chart_data.
ChartReturn ==
    /\ cur = "chart"
    /\ chart.src.ok
    /\ chart.j > Len(chart.src.bars)
    /\ chart' = [chart EXCEPT !.st = "done", !.j = 0, !.chart_data = <<>>,
                              !.status = 200, !.body = chart.chart_data]
    /\ cur' = "none"
    /\ UNCHANGED <<i, stocks_data, up, built, calls, http, call, tickers>>
    /\ UNCHANGED wsVars

get_stock_chart(upstream) ==
    \/ ChartRequest(upstream)
    \/ ChartFetchFails
    \/ ChartBarFails
    \/ ChartStep
    \/ ChartReturn

\* ------------------------------------------ GET /stock/{ticker}/chart alone
NextChart == get_stock_chart(ChartUpstream)

SpecChart == Init /\ [][NextChart]_vars

\* ---------------------------------- every endpoint, with one push connection
First == ConnNames[1]

NextAll ==
    \/ FetchStep(LoopOutcomes)
    \/ HttpRequest
    \/ HttpReturn
    \/ websocket_endpoint(First)
    \/ PeerClose(First)
    \/ Cancel(First)
    \/ get_stock_chart(LoopCharts)

SpecAll == Init /\ [][NextAll]_vars

\* ==================================================================== claims
\* get_stocks is at its return statement.
PassDone == cur # "none" /\ i > Len(tickers)

\* Number of tickers of the pass whose get_stock_data call raised.
FailCount(u) == Cardinality({k \in 1..Len(u) : Raises(u[k])})

Symbols(data) == [j \in 1..Len(data) |-> data[j].symbol]

\* C1: per-ticker failure isolation.  When get_stocks returns after K of the
\* N get_stock_data calls raised, the list has exactly N - K entries, and for
\* every ticker that did not fail the list holds exactly the quote that
\* get_stock_data computes from that ticker's own upstream record, whatever
\* happened to the other tickers.
C1_FailureIsolation ==
    PassDone =>
        /\ Len(stocks_data) = N - FailCount(up)
        /\ \A k \in 1..N :
              ~Raises(up[k]) =>
                 {stocks_data[j] : j \in {x \in 1..Len(stocks_data) :
                                         stocks_data[x].symbol = TICKERS[k]}}
                   = {get_stock_data(TICKERS[k], up[k])}

\* A pass in which the first ticker survives, a later one fails and the last
\* one survives again.
C1_Witness ==
    /\ PassDone
    /\ ~Raises(up[1]) /\ Raises(up[2]) /\ ~Raises(up[N])
    /\ Len(stocks_data) = N - FailCount(up)
    /\ FailCount(up) >= 1

\* Position of a symbol in TICKERS.
Pos(sym) == CHOOSE k \in 1..N : TICKERS[k] = sym

OrderedSubset(data) ==
    /\ \A a \in 1..Len(data) : \E k \in 1..N : TICKERS[k] = data[a].symbol
    /\ \A a, b \in 1..Len(data) :
          a < b => Pos(data[a].symbol) < Pos(data[b].symbol)

\* C2: in every list get_stocks builds or has returned for sending, the
\* symbols are configured tickers, none appears twice, and they are in the
\* relative order of TICKERS.
C2_OrderedSubset ==
    /\ OrderedSubset(stocks_data)
    /\ \A c \in Conns : \A m \in inflight[c] : OrderedSubset(m.data)

\* Only the second ticker failed: the list is the first and the third.
C2_Witness ==
    /\ PassDone
    /\ N >= 3
    /\ FailCount(up) = 1 /\ Raises(up[2])
    /\ Symbols(stocks_data) = <<TICKERS[1]>> \o SubSeq(TICKERS, 3, N)

\* C3: changePct never divides by zero: when the upstream previousClose is 0,
\* whether the key is absent or present with the value 0, the denominator is
\* 1, so the quote has change = Close and changePct = Close * 100 (a finite
\* number; Close = 50 gives 5000).
C3_FallbackDenominator ==
    (call.state = "returned" /\ Get(call.o.previousClose, 0) = Num(0)) =>
        /\ call.quote.change = Num(Round2(call.o.Close))
        /\ call.quote.changePct = Num(call.o.Close * 10)

QuoteFields == {"currentValue", "previousClose", "change", "changePct",
                "volume", "marketCap", "peRatio", "eps"}

NonNull(q) == \A f \in QuoteFields : q[f].k # "null"

\* C4: no quote of any snapshot, under construction or handed over for
\* sending, has a null field: a missing or null upstream number is replaced
\* by 0, or the ticker is left out.
C4_NoNullField ==
    /\ \A j \in 1..Len(stocks_data) : NonNull(stocks_data[j])
    /\ \A c \in Conns : \A m \in inflight[c] :
          \A j \in 1..Len(m.data) : NonNull(m.data[j])

\* C5: the step in which the send to connection c fails takes c, and only c,
\* out of the active connections; every other connection keeps its position
\* in its loop, the message it is being sent and what it has received.
C5_SendFailureIsolated ==
    [][\A c \in Conns :
          (pc[c] = "send" /\ pc'[c] = "close") =>
             /\ ActiveSet' = ActiveSet \ {c}
             /\ Cardinality(ActiveSet') = Cardinality(ActiveSet) - 1
             /\ \A d \in Conns \ {c} :
                   /\ pc'[d] = pc[d]
                   /\ inflight'[d] = inflight[d]
                   /\ received'[d] = received[d]
                   /\ peer'[d] = peer[d]]_vars

\* One connection's send has failed while another one, still active, has its
\* snapshot in flight to an open client.
C5_Witness ==
    \E c, d \in Conns :
        /\ c # d
        /\ pc[c] = "close"
        /\ pc[d] = "send" /\ peer[d] = "open" /\ inflight[d] # {}

C7_SendIsBounded ==
    \A c \in Conns : (pc[c] = "send") ~> (pc[c] # "send")

\* C8: a fetch error never ends a polling loop.  A loop inside get_stocks
\* stays in its cycle; when the pass returns, whatever failed, the partial
\* or empty list it built is handed to send_text; and a loop ends only by a
\* failed send (the client is gone) or by cancellation.
C8_LoopSurvivesFetchErrors ==
    [][\A c \in Conns :
          /\ pc[c] = "fetch" => pc'[c] \in {"fetch", "send"}
          /\ (pc[c] = "fetch" /\ pc'[c] = "send") =>
                /\ Len(stocks_data) = N - FailCount(up)
                /\ inflight'[c] = {[id |-> built + 1, by |-> c,
                                    data |-> stocks_data]}
          /\ pc[c] = "sleep" => pc'[c] \in {"sleep", "fetch", "cancelled"}
          /\ (Active(c) /\ ~Active(c)') =>
                \/ pc[c] = "send" /\ peer[c] = "gone" /\ pc'[c] = "close"
                \/ pc'[c] = "cancelled"]_vars

\* Every ticker of the pass failed and the empty snapshot is being sent.
C8_Witness ==
    \E c \in Conns :
        /\ pc[c] = "send"
        /\ peer[c] = "open"
        /\ \E m \in inflight[c] : m.data = <<>>

\* C9: closing a connection that is already closed raises no error: no
\* handler is ever ended by an exception of websocket.close().
C9_CloseIsNoOp ==
    \A c \in Conns : pc[c] # "error"

\* C10: the snapshots a connection receives come in the order they were
\* built: the pass number of what a client receives never decreases, and a
\* message in flight is newer than everything the client has received.
C10_SnapshotOrder ==
    [][\A c \in Conns :
          /\ received'[c].id >= received[c].id
          /\ \A m \in inflight'[c] : m.id > received'[c].id]_vars

\* A client has received two snapshots.
C10_Witness ==
    \E c \in Conns : received[c].n >= 2 /\ received[c].by = c

\* C11: a chart request is all or nothing.  A 200 response holds exactly one
\* record per upstream bar, the conversion of that bar, in upstream order;
\* when the fetch fails or any one bar cannot be converted the response is
\* the single 500 error and carries no record at all.
C11_ChartAllOrNothing ==
    LET bars == chart.src.bars
    IN  /\ chart.status \in {0, 200, 500}
        /\ chart.st = "done" => chart.status \in {200, 500}
        /\ chart.status = 200 =>
              /\ chart.src.ok
              /\ \A j \in 1..Len(bars) : ~BarRaises(bars[j])
              /\ Len(chart.body) = Len(bars)
              /\ \A j \in 1..Len(bars) : chart.body[j] = ConvertBar(bars[j])
        /\ chart.status = 500 =>
              /\ chart.body = <<>>
              /\ ~chart.src.ok \/ \E j \in 1..Len(bars) : BarRaises(bars[j])
        /\ (chart.st = "done" /\ (~chart.src.ok \/
                                  \E j \in 1..Len(bars) : BarRaises(bars[j])))
              => chart.status = 500

\* The first bar was converted, the second could not be: the request ended
\* in the error, without the first record.
C11_Witness ==
    /\ chart.st = "done"
    /\ chart.src.ok
    /\ Len(chart.src.bars) >= 2
    /\ ~BarRaises(chart.src.bars[1])
    /\ BarRaises(chart.src.bars[2])
    /\ chart.status = 500
    /\ chart.body = <<>>

\* C12: GET /stocks never surfaces a per-ticker failure as a hard error:
\* whatever fails upstream, every response is a 200 with a list (possibly
\* empty), never the 500 of lines 106-108.
C12_NoHardError ==
    /\ http.status \in {0, 200}
    /\ http.status = 0 => http.body = <<>>
    /\ Len(http.body) <= N

\* Every ticker failed and the response is still a 200, with the empty list.
C12_Witness ==
    /\ http.status = 200
    /\ http.body = <<>>
    /\ built >= 1

ClosedStates == {"close", "closed", "error", "cancelled"}

\* The list get_stocks builds from the upstream outcomes u of one pass.
RECURSIVE SnapshotOf(_)
SnapshotOf(u) ==
    IF u = <<>> THEN <<>>
    ELSE LET k == Len(u)
             rest == SnapshotOf(SubSeq(u, 1, k - 1))
         IN  IF Raises(u[k]) THEN rest
             ELSE Append(rest, get_stock_data(TICKERS[k], u[k]))

\* C13: a connection's loop goes fetch -> send -> sleep -> fetch.  A send
\* starts only when a pass of that loop returns, with one call per ticker,
\* and puts exactly that pass's one message in flight; a message is received
\* only in the step that ends the send and starts the sleep; and a pass
\* starts only after accept or after a sleep, never right after a send.
C13_CycleShape ==
    [][\A c \in Conns :
          /\ pc[c] = "fetch" => pc'[c] \in {"fetch", "send"}
          /\ pc[c] = "send" =>
                pc'[c] \in {"send", "sleep", "close", "cancelled"}
          /\ pc[c] = "sleep" => pc'[c] \in {"sleep", "fetch", "cancelled"}
          /\ (pc[c] # "send" /\ pc'[c] = "send") =>
                /\ pc[c] = "fetch" /\ cur = c /\ Len(up) = N
                /\ Cardinality(inflight'[c]) = 1
                /\ \A m \in inflight'[c] : m.id = built + 1
          /\ received'[c] # received[c] =>
                /\ pc[c] = "send" /\ pc'[c] = "sleep"
                /\ received'[c].n = received[c].n + 1
                /\ inflight'[c] = {}
          /\ (pc[c] # "fetch" /\ pc'[c] = "fetch") =>
                pc[c] \in {"new", "sleep"}]_vars

\* A connection that went through one whole cycle is publishing again.
C13_Witness ==
    \E c \in Conns :
        /\ received[c].n = 1
        /\ pc[c] = "send"
        /\ inflight[c] # {}

\* C14: nothing is in flight to a closed connection, a closed connection
\* never is active again and receives nothing more, and a connection that is
\* being closed does not hold the event loop, so the others go on.
C14_ClosedIsFinal ==
    [][\A c \in Conns :
          /\ pc'[c] \in ClosedStates => (inflight'[c] = {} /\ cur' # c)
          /\ pc[c] \in ClosedStates =>
                /\ pc'[c] \in ClosedStates
                /\ received'[c] = received[c]]_vars

\* A connection was closed after a failed send, with nothing left in flight
\* to it, while the pass of another connection's cycle is under way.
C14_Witness ==
    \E c, d \in Conns :
        /\ c # d
        /\ pc[c] \in {"closed", "error"}
        /\ peer[c] = "gone"
        /\ pc[d] = "fetch" /\ cur = d

\* C15: a snapshot holds the results of its own pass only.  A pass starts
\* from the empty list, at its return the list is exactly what the upstream
\* outcomes of this pass give (a ticker that failed now is absent), and a
\* message handed over for sending is not changed while it is in flight.
C15_FreshSnapshot ==
    [][/\ PassDone => stocks_data = SnapshotOf(up)
       /\ (cur = "none" /\ cur' \in Conns \cup {"http"}) =>
             (stocks_data' = <<>> /\ up' = <<>>)
       /\ \A c \in Conns : \A m \in inflight[c] :
             \/ m \in inflight'[c]
             \/ \A m2 \in inflight'[c] : m2.id # m.id]_vars

\* A connection that has been served before ends a pass in which the first
\* ticker failed: the list has the other tickers only.
C15_Witness ==
    \E c \in Conns :
        /\ cur = c
        /\ PassDone
        /\ received[c].n >= 1
        /\ Raises(up[1])
        /\ Len(stocks_data) = N - 1

\* C16: GET /stocks and a push cycle are the same operation: when a pass
\* returns, the response body of GET /stocks, or the message given to
\* send_text, is the same function of the upstream outcomes of the pass.
C16_SameSnapshot ==
    [][(PassDone /\ cur' = "none") =>
          /\ cur = "http" =>
                (http'.status = 200 /\ http'.body = SnapshotOf(up))
          /\ cur \in Conns =>
                inflight'[cur] = {[id |-> built + 1, by |-> cur,
                                   data |-> SnapshotOf(up)]}]_vars

\* A response of GET /stocks and a message in flight hold the same partial
\* list.
C16_Witness ==
    /\ http.status = 200
    /\ Len(http.body) >= 1 /\ Len(http.body) < N
    /\ \E m \in inflight[First] : m.data = http.body

\* C17: a new connection is served at once: accept is followed by a pass,
\* not by a sleep; a connection sleeps only after it has received a
\* snapshot; and the first send carries the one message of that first pass.
C17_NoInitialWait ==
    [][\A c \in Conns :
          /\ pc[c] = "new" => pc'[c] \in {"new", "fetch"}
          /\ (pc[c] = "new" /\ pc'[c] = "fetch") => (cur' = c /\ i' = 1)
          /\ pc'[c] = "sleep" => received'[c].n >= 1
          /\ (pc'[c] = "send" /\ received'[c].n = 0) =>
                /\ Cardinality(inflight'[c]) = 1
                /\ \A m \in inflight'[c] : m.by = c]_vars

\* The first snapshot of a connection is in flight and nothing was received
\* before.
C17_Witness ==
    \E c \in Conns :
        /\ pc[c] = "send"
        /\ received[c] = NoMsg
        /\ peer[c] = "open"
        /\ \E m \in inflight[c] : Len(m.data) = N

\* C18: no operation changes the configured ticker list, and every pass,
\* also one after a chart request, visits exactly the tickers of startup.
C18_TickersFixed ==
    /\ tickers = TICKERS
    /\ PassDone => (Len(up) = N /\ stocks_data = SnapshotOf(up))

\* A pass ends after a chart request for a symbol that is not configured.
C18_Witness ==
    /\ chart.st = "done"
    /\ chart.status = 200
    /\ \A k \in 1..N : TICKERS[k] # chart.ticker
    /\ PassDone
    /\ Symbols(stocks_data) = TICKERS

====
